---- MODULE Spec2Model ----
(***************************************************************************)
(* Model of the MCP analytics server: the withAnalytics wrapper            *)
(* (src/src/analytics.ts), the PostHog provider (src/src/posthog.ts), the  *)
(* tools (src/src/tools.ts), the server build / start sequence             *)
(* (src/unnamed/part_001) and main (src/src/index.ts).                     *)
(*                                                                         *)
(* One JavaScript event loop: every action is the synchronous run of code  *)
(* between two suspension points (await).                                  *)
(***************************************************************************)
EXTENDS Integers, Sequences, FiniteSets, TLC

\* ---------------------------------------------------------------- bounds
\* number of tool calls the client sends in one process run
MaxCalls == 2

Calls == 1..MaxCalls

\* number of SIGINT / SIGTERM signals delivered in one process run
MaxSignals == 2

\* number of tool calls the client sends in a run in which signals are delivered
MaxLiveCalls == 1

Signals == 1..MaxSignals

\* ---------------------------------------------------------------- inputs
\* productId values a client may pass to checkStock (known and unknown ids)
ProductIdInputs == {"1", "9", "42"}

\* data values a client may pass to analyze_data
DataInputs == {"abc"}

\* what the vendor client's isFeatureEnabled does for this run: resolve with
\* true / false / undefined, reject, or never settle
VendorFlagOutcomes == {"true", "false", "undefined", "reject", "never"}

\* Date.now() when the process starts, and process.pid; the values are
\* interchangeable, one of each stands for all
StartTimes == {1}
Pids == {100}

\* ---------------------------------------------------------------- tools.ts
products ==
  << [id |-> "1", name |-> "Laptop",   price |-> 999, stock |-> 5],
     [id |-> "2", name |-> "Mouse",    price |-> 29,  stock |-> 50],
     [id |-> "3", name |-> "Keyboard", price |-> 79,  stock |-> 25] >>

Ok(v)  == [kind |-> "ok",  val |-> v]
Err(m) == [kind |-> "err", val |-> m]
NoOutcome == [kind |-> "none", val |-> ""]

\* JSON.stringify(products, null, 2): the text lists the products in order
InventoryText == "[Laptop,Mouse,Keyboard]"

getInventory == Ok(InventoryText)

\* products.find((p) => p.id === productId)
FindProduct(productId) ==
  LET idx == {i \in 1..Len(products) : products[i].id = productId}
  IN  IF idx = {} THEN << >>
      ELSE << products[CHOOSE i \in idx : \A j \in idx : i <= j] >>

checkStock(productId) ==
  LET found == FindProduct(productId)
  IN  IF found = << >>
      THEN Err("Product " \o productId \o " not found")
      ELSE Ok(found[1].name \o ": " \o ToString(found[1].stock) \o " units in stock")

analyzeData(data) == Ok("Analyzed data: " \o data)

\* setTimeout(() => {}, 1000) in analyzeData: the timer is started and not
\* awaited
StartsTimer(tool) == tool = "analyze_data"

\* success = Math.random() > 0.5
riskyOperation(success) ==
  IF ~success THEN Err("Risky operation failed")
  ELSE Ok("Risky operation succeeded")

\* mutant: the registration of analyze_data is missing
UngatedTools_Mut == {"getInventory", "checkStock"}

UngatedTools == {"getInventory", "checkStock", "analyze_data"}
GatedTool == "risky_operation"
ToolNames == UngatedTools \cup {GatedTool}

\* arguments the input schema of each tool admits
ArgsOf(tool) ==
  CASE tool = "checkStock"   -> ProductIdInputs
    [] tool = "analyze_data" -> DataInputs
    [] OTHER                 -> {""}

\* the handler closure registered for each tool, run on the call's arguments
RunHandler(tool, arg, rnd) ==
  CASE tool = "getInventory" -> getInventory
    [] tool = "checkStock"   -> checkStock(arg)
    [] tool = "analyze_data" -> analyzeData(arg)
    [] OTHER                 -> riskyOperation(rnd)

\* errors a tracking call of the backend can reject with
TrackToolFailure  == "capture failed"
TrackErrorFailure == "captureException failed"

VARIABLES
  apiKey,          \* POSTHOG_API_KEY is set: a backend is constructed
  vendorFlag,      \* behaviour of the vendor's isFeatureEnabled in this run
  mainPc,          \* position of main() / startStdioServer / buildStdioServer
  registered,      \* tools registered on the McpServer
  flagQueries,     \* calls made to the vendor's isFeatureEnabled
  flagPromise,     \* the promise of the flag query: none / pending / resolved / rejected
  flagResolved,    \* the value isFeatureEnabled resolved with at startup, "none" before
  startupErr,      \* the error main() caught during startup, "" when none
  anonymizeData,   \* the anonymizeData option handed to the provider's constructor
  mcpInteractionId,\* the provider's identity, "" while no provider is constructed
  flagCalls,       \* client.isFeatureEnabled calls received by the vendor client
  serverLog,       \* what buildStdioServer did, in order: tool registrations, flag query
  now,             \* the reading Date.now() gives at this moment
  captures,        \* client.capture calls received by the vendor client
  exceptions,      \* client.captureException calls received by the vendor client
  inv,             \* the withAnalytics invocations, one per tool call
  trackToolCalls,  \* trackTool calls received by the backend, in order
  trackErrorCalls, \* trackError calls received by the backend, in order
  exitCode,        \* the code process.exit was called with, "none" while running
  serverClosed,    \* handle.server.close() has resolved
  stop             \* the stopStdioServer invocations, one per signal delivered

vars == << apiKey, vendorFlag, mainPc, registered, flagQueries, flagPromise,
           flagResolved, startupErr, anonymizeData, mcpInteractionId, flagCalls,
           serverLog, now, captures, exceptions, inv, trackToolCalls, trackErrorCalls,
           exitCode, serverClosed,
           stop >>

mainVars == << apiKey, vendorFlag, mainPc, registered, flagQueries, flagPromise,
               flagResolved, startupErr, anonymizeData, mcpInteractionId, flagCalls,
               serverLog, now >>
callVars == << inv, trackToolCalls, trackErrorCalls, captures, exceptions >>
stopVars == << serverClosed, stop >>

IdleInv ==
  [pc |-> "idle", tool |-> "", arg |-> "", start |-> 0, settledAt |-> 0,
   handlerCalls |-> 0,
   handlerOut |-> NoOutcome, caught |-> "",
   ttRes |-> "none", teRes |-> "none", out |-> NoOutcome, timer |-> "none"]

IdleStop ==
  [pc |-> "idle", serverClose |-> "none", shutdown |-> "none", close |-> "none",
   res |-> "none"]

Init ==
  /\ apiKey \in BOOLEAN
  /\ vendorFlag \in (IF apiKey THEN VendorFlagOutcomes ELSE {"undefined"})
  /\ mainPc = "init"
  /\ registered = {}
  /\ flagQueries = 0
  /\ flagPromise = "none"
  /\ flagResolved = "none"
  /\ startupErr = ""
  /\ anonymizeData = TRUE
  /\ mcpInteractionId = ""
  /\ flagCalls = << >>
  /\ serverLog = << >>
  /\ now \in StartTimes
  /\ captures = << >>
  /\ exceptions = << >>
  /\ inv = [i \in Calls |-> IdleInv]
  /\ trackToolCalls = << >>
  /\ trackErrorCalls = << >>
  /\ exitCode = "none"
  /\ serverClosed = FALSE
  /\ stop = [s \in Signals |-> IdleStop]


\* ------------------------------------------------------------- posthog.ts
FlagFailure    == "flag request failed"
ConnectFailure == "connect failed"

\* this.mcpInteractionId = `mcp_${Date.now()}_${process.pid}`
MakeInteractionId(t, pid) == "mcp_" \o ToString(t) \o "_" \o ToString(pid)

\* trackTool: client.capture({ distinctId, event, properties: { tool_name, ...result } });
\* the spread of result comes last, so its keys win
ProviderTrackTool(id, toolName, result) ==
  [distinctId |-> id, event |-> "tool_executed",
   properties |-> result @@ [tool_name |-> toolName]]

\* mutant: the exception is captured under a freshly made identity
ProviderTrackError_Mut(id, error, context) ==
  [error |-> [name |-> "Error", message |-> error],
   distinctId |-> MakeInteractionId(0, 100),
   properties |-> [duration_ms |-> context.duration_ms, tool_name |-> context.tool_name]]

\* trackError: client.captureException(error, distinctId, { duration_ms, tool_name });
\* context.args is not passed on
ProviderTrackError(id, error, context) ==
  [error |-> [name |-> "Error", message |-> error],
   distinctId |-> id,
   properties |-> [duration_ms |-> context.duration_ms, tool_name |-> context.tool_name]]

\* isFeatureEnabled: client.isFeatureEnabled(flagName, distinctId)
ProviderFlagCall(id, flagName) == [flag |-> flagName, distinctId |-> id]

\* PostHogAnalyticsProvider.isFeatureEnabled: the awaited vendor call is not
\* guarded, so a rejection propagates; a resolved value goes through
\* `enabled ?? false`
ProviderIsFeatureEnabled(vendor) ==
  CASE vendor = "reject" -> "reject"
    [] vendor = "true"   -> "true"
    [] OTHER             -> "false"

\* ------------------------------------------------------- server (part_001)
\* mutant: the tool is registered whenever a backend is present
GateDecision_Mut(analytics, flagResult) == analytics

\* const isFeatureEnabled = await analytics?.isFeatureEnabled(..) || false
GateDecision(analytics, flagResult) ==
  analytics /\ flagResult = "true"

\* mutant: the flag is queried without looking at analytics
FlagQueriesIssued_Mut(analytics) == 1

\* number of flag queries issued by buildStdioServer: analytics?.isFeatureEnabled
FlagQueriesIssued(analytics) == IF analytics THEN 1 ELSE 0

\* mutant: connect is requested before the flag query is awaited
CanDispatch_Mut(pc, tool, reg) ==
  pc \in {"await_flag", "connecting", "serving"} /\ tool \in reg

\* the transport delivers tool calls only once server.connect has resolved,
\* which startStdioServer requests after awaiting buildStdioServer
CanDispatch(pc, tool, reg) == pc = "serving" /\ tool \in reg

\* the server.tool(..) calls buildStdioServer makes before the flag query, in order
UngatedOrder == << "getInventory", "checkStock", "analyze_data" >>

ToolEvent(name) == [op |-> "tool", name |-> name]
FlagQueryEvent(flagName) == [op |-> "isFeatureEnabled", name |-> flagName]

\* buildStdioServer up to its await: the three registrations, then
\* analytics?.isFeatureEnabled("experimental_tools")
BuildLog(analytics) ==
  [k \in 1..Len(UngatedOrder) |-> ToolEvent(UngatedOrder[k])] \o
  (IF analytics THEN << FlagQueryEvent("experimental_tools") >> ELSE << >>)

\* process.exit has not been called
Alive == exitCode = "none"

\* main() up to the first suspension point: the provider is constructed when
\* the key is set, the three ungated tools are registered, and the flag query
\* is issued and awaited
M_Start ==
  /\ mainPc = "init"
  /\ \E pid \in Pids :
       LET id == MakeInteractionId(now, pid)
       IN  /\ mcpInteractionId' = IF apiKey THEN id ELSE ""
           /\ flagCalls' = IF apiKey
                            THEN Append(flagCalls, ProviderFlagCall(id, "experimental_tools"))
                            ELSE flagCalls
  /\ registered' = UngatedTools
  /\ serverLog' = BuildLog(apiKey)
  /\ flagQueries' = flagQueries + FlagQueriesIssued(apiKey)
  /\ flagPromise' = IF apiKey THEN "pending" ELSE "none"
  /\ mainPc' = "await_flag"
  /\ UNCHANGED << apiKey, vendorFlag, flagResolved, startupErr, anonymizeData, now,
                  callVars, exitCode, stopVars >>

\* the awaited flag query settles; buildStdioServer finishes, startStdioServer
\* calls server.connect and awaits it.  A rejection reaches the catch of main.
M_FlagSettle ==
  /\ mainPc = "await_flag"
  /\ apiKey => vendorFlag # "never"
  /\ LET res == IF apiKey THEN ProviderIsFeatureEnabled(vendorFlag) ELSE "undefined"
     IN  IF res = "reject"
         THEN /\ startupErr' = FlagFailure
              /\ flagPromise' = "rejected"
              /\ UNCHANGED flagResolved
              /\ mainPc' = "exited"
              /\ exitCode' = "1"
              /\ UNCHANGED << registered, serverLog >>
         ELSE /\ registered' = registered \cup
                     (IF GateDecision(apiKey, res) THEN {GatedTool} ELSE {})
              /\ serverLog' = IF GateDecision(apiKey, res)
                              THEN Append(serverLog, ToolEvent(GatedTool))
                              ELSE serverLog
              /\ flagPromise' = IF apiKey THEN "resolved" ELSE "none"
              /\ flagResolved' = IF apiKey THEN res ELSE "none"
              /\ mainPc' = "connecting"
              /\ UNCHANGED << startupErr, exitCode >>
  /\ UNCHANGED << apiKey, vendorFlag, flagQueries, anonymizeData, mcpInteractionId,
                  flagCalls, now, callVars, stopVars >>

\* server.connect(transport) settles
M_ConnectSettle ==
  /\ mainPc = "connecting"
  /\ \E ok \in BOOLEAN :
       IF ok THEN mainPc' = "serving" /\ UNCHANGED << startupErr, exitCode >>
             ELSE mainPc' = "exited" /\ startupErr' = ConnectFailure /\ exitCode' = "1"
  /\ UNCHANGED << apiKey, vendorFlag, registered, flagQueries, flagPromise,
                  flagResolved, anonymizeData, mcpInteractionId, flagCalls,
                  serverLog, now, callVars,
                  stopVars >>

\* the flag is switched in PostHog while the server is running
RemoteFlagChange ==
  /\ mainPc = "serving"
  /\ apiKey
  /\ \E v \in {"true", "false"} : v # vendorFlag /\ vendorFlag' = v
  /\ UNCHANGED << apiKey, mainPc, registered, flagQueries, flagPromise,
                  flagResolved, startupErr, anonymizeData, mcpInteractionId, flagCalls,
                  serverLog, now,
                  callVars, exitCode, stopVars >>

\* ----------------------------------------------------------- analytics.ts
\* mutant: the success report carries success: false
TrackToolCall_Mut(i, toolName) ==
  [inv |-> i, toolName |-> toolName, duration_ms |-> now - inv[i].start, success |-> FALSE]

\* mutant: the tool name is kept in one place shared by all invocations, and
\* the report carries the name of the invocation started last
TrackToolCall_Shared(i, toolName) ==
  [inv |-> i,
   toolName |-> inv[CHOOSE j \in Calls : /\ inv[j].pc # "idle"
                                        /\ \A k \in Calls : inv[k].pc # "idle" => k <= j].tool,
   duration_ms |-> now - inv[i].start, success |-> TRUE]

\* analytics?.trackTool(toolName, { duration_ms, success: true })
TrackToolCall(i, toolName) ==
  [inv |-> i, toolName |-> toolName, duration_ms |-> now - inv[i].start, success |-> TRUE]

\* the result object of that call, as the provider receives it
TrackToolResult(i, toolName) ==
  [duration_ms |-> TrackToolCall(i, toolName).duration_ms,
   success |-> TrackToolCall(i, toolName).success]

\* analytics?.trackError(error, { tool_name: toolName, duration_ms })
TrackErrorCall(i, toolName, error) ==
  [inv |-> i, tool_name |-> toolName, duration_ms |-> now - inv[i].start, error |-> error]

\* mutant: the call is made whether or not analytics is defined
LogIfPresent_Mut(analytics, log, call) == Append(log, call)

\* optional chaining: the call is made only when analytics is defined
LogIfPresent(analytics, log, call) ==
  IF analytics THEN Append(log, call) ELSE log

\* what the caller observes once the awaited trackTool has resolved
ReturnAfterTrackTool(result) == result

\* mutant: a new error wrapping the message is thrown
ThrowAfterTrackError_Mut(caught, trackErrorOk) ==
  IF trackErrorOk THEN Err("Error: " \o caught) ELSE Err(TrackErrorFailure)

\* mutant: a failure of trackError ends the catch block with a normal return
ThrowAfterTrackError_Swallow(caught, trackErrorOk) ==
  IF trackErrorOk THEN Err(caught) ELSE Ok("undefined")

\* what the caller observes after the catch block: `throw error` when the
\* awaited trackError resolved, the rejection of that await otherwise
ThrowAfterTrackError(caught, trackErrorOk) ==
  IF trackErrorOk THEN Err(caught) ELSE Err(TrackErrorFailure)

\* the least idle slot: calls are numbered in order of arrival
NextCall == CHOOSE i \in Calls : inv[i].pc = "idle" /\ \A j \in Calls : inv[j].pc = "idle" => i <= j

\* mutant: the flag is looked up again, and the gate applied, on every call
Dispatch_Mut(tool, arg, rnd) ==
  /\ \E i \in Calls : inv[i].pc = "idle"
  /\ CanDispatch(mainPc, tool, registered)
  /\ ~serverClosed
  /\ arg \in ArgsOf(tool)
  /\ inv' = [inv EXCEPT ![NextCall] =
               [@ EXCEPT !.pc = "await_handler", !.tool = tool, !.arg = arg,
                         !.start = now,
                         !.handlerCalls = @ + 1,
                         !.handlerOut = RunHandler(tool, arg, rnd),
                         !.timer = IF StartsTimer(tool) THEN "pending" ELSE "none"]]
  /\ flagQueries' = flagQueries + FlagQueriesIssued(apiKey)
  /\ registered' = UngatedTools \cup
                     (IF GateDecision(apiKey, vendorFlag) THEN {GatedTool} ELSE {})
  /\ UNCHANGED << apiKey, vendorFlag, mainPc, flagPromise, flagResolved, startupErr,
                  anonymizeData, mcpInteractionId, flagCalls,
                  serverLog, now, trackToolCalls, trackErrorCalls,
                  captures, exceptions, exitCode, stopVars >>

\* the server dispatches a tool call: the registered closure runs
\* withAnalytics, which takes the start time and invokes the handler
Dispatch(tool, arg, rnd) ==
  /\ \E i \in Calls : inv[i].pc = "idle"
  /\ CanDispatch(mainPc, tool, registered)
  /\ ~serverClosed
  /\ arg \in ArgsOf(tool)
  /\ inv' = [inv EXCEPT ![NextCall] =
               [@ EXCEPT !.pc = "await_handler", !.tool = tool, !.arg = arg,
                         !.start = now,
                         !.handlerCalls = @ + 1,
                         !.handlerOut = RunHandler(tool, arg, rnd),
                         !.timer = IF StartsTimer(tool) THEN "pending" ELSE "none"]]
  /\ UNCHANGED << mainVars, trackToolCalls, trackErrorCalls, captures, exceptions,
                  exitCode, stopVars >>

\* mutant: the tracking call is made and not awaited; the caller gets the
\* handler's outcome at once
W_HandlerSettle_Mut(i) ==
  /\ Alive
  /\ inv[i].pc = "await_handler"
  /\ IF inv[i].handlerOut.kind = "ok"
     THEN /\ trackToolCalls' =
               LogIfPresent(apiKey, trackToolCalls, TrackToolCall(i, inv[i].tool))
          /\ captures' =
               LogIfPresent(apiKey, captures,
                            ProviderTrackTool(mcpInteractionId, inv[i].tool,
                                              TrackToolResult(i, inv[i].tool)))
          /\ UNCHANGED << trackErrorCalls, exceptions >>
     ELSE /\ trackErrorCalls' =
               LogIfPresent(apiKey, trackErrorCalls,
                            TrackErrorCall(i, inv[i].tool, inv[i].handlerOut.val))
          /\ exceptions' =
               LogIfPresent(apiKey, exceptions,
                            ProviderTrackError(mcpInteractionId, inv[i].handlerOut.val,
                                               TrackErrorCall(i, inv[i].tool,
                                                              inv[i].handlerOut.val)))
          /\ UNCHANGED << trackToolCalls, captures >>
  /\ inv' = [inv EXCEPT ![i].pc = "done", ![i].settledAt = now,
                        ![i].out = inv[i].handlerOut]
  /\ UNCHANGED << mainVars, exitCode, stopVars >>

\* `await handler()` settles: the try block goes on to trackTool, a rejection
\* enters the catch block, which calls trackError
W_HandlerSettle(i) ==
  /\ Alive
  /\ inv[i].pc = "await_handler"
  /\ IF inv[i].handlerOut.kind = "ok"
     THEN /\ trackToolCalls' =
               LogIfPresent(apiKey, trackToolCalls, TrackToolCall(i, inv[i].tool))
          /\ captures' =
               LogIfPresent(apiKey, captures,
                            ProviderTrackTool(mcpInteractionId, inv[i].tool,
                                              TrackToolResult(i, inv[i].tool)))
          /\ inv' = [inv EXCEPT ![i].pc = "await_trackTool", ![i].settledAt = now]
          /\ UNCHANGED << trackErrorCalls, exceptions >>
     ELSE /\ trackErrorCalls' =
               LogIfPresent(apiKey, trackErrorCalls,
                            TrackErrorCall(i, inv[i].tool, inv[i].handlerOut.val))
          /\ exceptions' =
               LogIfPresent(apiKey, exceptions,
                            ProviderTrackError(mcpInteractionId, inv[i].handlerOut.val,
                                               TrackErrorCall(i, inv[i].tool,
                                                              inv[i].handlerOut.val)))
          /\ inv' = [inv EXCEPT ![i].pc = "await_trackError", ![i].settledAt = now,
                                ![i].caught = inv[i].handlerOut.val]
          /\ UNCHANGED << trackToolCalls, captures >>
  /\ UNCHANGED << mainVars, exitCode, stopVars >>

\* mutant: when trackTool rejects, the handler is invoked again
W_TrackToolSettle_Retry(i) ==
  /\ Alive
  /\ inv[i].pc = "await_trackTool"
  /\ \E ok \in BOOLEAN :
       /\ ~apiKey => ok
       /\ IF ok
          THEN inv' = [inv EXCEPT ![i].pc = "done",
                                  ![i].ttRes = IF apiKey THEN "resolved" ELSE "none",
                                  ![i].out = ReturnAfterTrackTool(inv[i].handlerOut)]
          ELSE inv' = [inv EXCEPT ![i].pc = "await_handler",
                                  ![i].ttRes = "rejected",
                                  ![i].handlerCalls = @ + 1]
  /\ UNCHANGED << mainVars, trackToolCalls, trackErrorCalls, captures, exceptions,
                  exitCode, stopVars >>

\* `await analytics?.trackTool(..)` settles.  It is inside the try block: a
\* rejection is caught by the same catch block as a handler failure.
W_TrackToolSettle(i) ==
  /\ Alive
  /\ inv[i].pc = "await_trackTool"
  /\ \E ok \in BOOLEAN :
       /\ ~apiKey => ok
       /\ IF ok
          THEN /\ inv' = [inv EXCEPT ![i].pc = "done",
                                     ![i].ttRes = IF apiKey THEN "resolved" ELSE "none",
                                     ![i].out = ReturnAfterTrackTool(inv[i].handlerOut)]
               /\ UNCHANGED << trackErrorCalls, exceptions >>
          ELSE /\ trackErrorCalls' =
                    LogIfPresent(apiKey, trackErrorCalls,
                                 TrackErrorCall(i, inv[i].tool, TrackToolFailure))
               /\ exceptions' =
                    LogIfPresent(apiKey, exceptions,
                                 ProviderTrackError(mcpInteractionId, TrackToolFailure,
                                                    TrackErrorCall(i, inv[i].tool,
                                                                   TrackToolFailure)))
               /\ inv' = [inv EXCEPT ![i].pc = "await_trackError",
                                     ![i].ttRes = "rejected",
                                     ![i].caught = TrackToolFailure]
  /\ UNCHANGED << mainVars, trackToolCalls, captures, exitCode, stopVars >>

\* `await analytics?.trackError(..)` settles; then `throw error`
W_TrackErrorSettle(i) ==
  /\ Alive
  /\ inv[i].pc = "await_trackError"
  /\ \E ok \in BOOLEAN :
       /\ ~apiKey => ok
       /\ inv' = [inv EXCEPT ![i].pc = "done",
                             ![i].teRes = IF ~apiKey THEN "none"
                                          ELSE IF ok THEN "resolved" ELSE "rejected",
                             ![i].out = ThrowAfterTrackError(inv[i].caught, ok)]
  /\ UNCHANGED << mainVars, trackToolCalls, trackErrorCalls, captures, exceptions,
                  exitCode, stopVars >>

\* the 1000 ms timer of analyzeData fires.  The handler's promise is settled
\* when it is awaited, so its continuation runs before any timer.
TimerFire(i) ==
  /\ Alive
  /\ inv[i].timer = "pending"
  /\ inv[i].pc # "await_handler"
  /\ inv' = [inv EXCEPT ![i].timer = "fired"]
  /\ UNCHANGED << mainVars, trackToolCalls, trackErrorCalls, captures, exceptions,
                  exitCode, stopVars >>

\* ------------------------------------------------ shutdown (part_001, index.ts)
\* mutant: close() lets the failure of client.shutdown() through
ProviderClose_Mut(shutdownOk) == IF shutdownOk THEN "resolved" ELSE "rejected"

\* PostHogAnalyticsProvider.close: try { await client.shutdown() } catch { log }
ProviderClose(shutdownOk) == "resolved"

\* mutant: the catch block of stopStdioServer rethrows
StopAfterCatch_Mut(err) == "rejected"

\* stopStdioServer's catch block logs the error; the function then returns
StopAfterCatch(err) == "resolved"

\* the least idle slot: signals are numbered in order of delivery
NextSignal ==
  CHOOSE s \in Signals : stop[s].pc = "idle" /\ \A t \in Signals : stop[t].pc = "idle" => s <= t

\* SIGINT or SIGTERM is delivered (the handlers are installed once
\* startStdioServer has returned): stopStdioServer calls handle.server.close()
Signal ==
  /\ Alive
  /\ mainPc = "serving"
  /\ \E s \in Signals : stop[s].pc = "idle"
  /\ stop' = [stop EXCEPT ![NextSignal] =
                 [@ EXCEPT !.pc = "await_server_close", !.serverClose = "called"]]
  /\ UNCHANGED << mainVars, callVars, exitCode, serverClosed >>

\* `await handle.server.close()` settles.  Resolved: analytics.close() is
\* called when a backend is present, else the process exits.  Rejected: the
\* catch block runs.
S_ServerCloseSettle(s) ==
  /\ Alive
  /\ stop[s].pc = "await_server_close"
  /\ \E ok \in BOOLEAN :
       IF ok
       THEN /\ serverClosed' = TRUE
            /\ IF apiKey
               THEN /\ stop' = [stop EXCEPT ![s] =
                                  [@ EXCEPT !.pc = "await_analytics_close",
                                            !.serverClose = "resolved",
                                            !.close = "called",
                                            !.shutdown = "called"]]
                    /\ UNCHANGED << mainPc, exitCode >>
               ELSE /\ stop' = [stop EXCEPT ![s] =
                                  [@ EXCEPT !.pc = "exit", !.serverClose = "resolved"]]
                    /\ mainPc' = "exited"
                    /\ exitCode' = "0"
       ELSE /\ stop' = [stop EXCEPT ![s] =
                          [@ EXCEPT !.pc = "done", !.serverClose = "rejected",
                                    !.res = StopAfterCatch("server.close failed")]]
            /\ UNCHANGED << mainPc, exitCode, serverClosed >>
  /\ UNCHANGED << apiKey, vendorFlag, registered, flagQueries, flagPromise,
                  flagResolved, startupErr, anonymizeData, mcpInteractionId, flagCalls,
                  serverLog, now,
                  callVars >>

\* client.shutdown() settles inside close(); close() settles, and
\* stopStdioServer either exits the process or runs its catch block
S_AnalyticsCloseSettle(s) ==
  /\ Alive
  /\ stop[s].pc = "await_analytics_close"
  /\ \E ok \in BOOLEAN :
       LET closed == ProviderClose(ok)
       IN  IF closed = "resolved"
           THEN /\ stop' = [stop EXCEPT ![s] =
                              [@ EXCEPT !.pc = "exit",
                                        !.shutdown = IF ok THEN "resolved" ELSE "rejected",
                                        !.close = closed]]
                /\ mainPc' = "exited"
                /\ exitCode' = "0"
           ELSE /\ stop' = [stop EXCEPT ![s] =
                              [@ EXCEPT !.pc = "done",
                                        !.shutdown = IF ok THEN "resolved" ELSE "rejected",
                                        !.close = closed,
                                        !.res = StopAfterCatch("analytics.close failed")]]
                /\ UNCHANGED << mainPc, exitCode >>
  /\ UNCHANGED << apiKey, vendorFlag, registered, flagQueries, flagPromise,
                  flagResolved, startupErr, anonymizeData, mcpInteractionId, flagCalls,
                  serverLog, now,
                  callVars, serverClosed >>

Next ==
  \/ M_Start
  \/ M_FlagSettle
  \/ M_ConnectSettle
  \/ \E tool \in ToolNames, arg \in ProductIdInputs \cup DataInputs \cup {""},
        rnd \in BOOLEAN : Dispatch(tool, arg, rnd)
  \/ \E i \in Calls : W_HandlerSettle(i)
  \/ \E i \in Calls : W_TrackToolSettle(i)
  \/ \E i \in Calls : W_TrackErrorSettle(i)
  \/ \E i \in Calls : TimerFire(i)

Spec == Init /\ [][Next]_vars

\* ----------------------------- the long-running server: remote flag changes
\* tool calls sent so far
CallsSent == Cardinality({i \in Calls : inv[i].pc # "idle"})

GateNext ==
  \/ M_Start
  \/ M_FlagSettle
  \/ M_ConnectSettle
  \/ RemoteFlagChange
  \/ \E tool \in ToolNames, arg \in ProductIdInputs \cup DataInputs \cup {""},
        rnd \in BOOLEAN : CallsSent < MaxLiveCalls /\ Dispatch(tool, arg, rnd)
  \/ \E i \in Calls : W_HandlerSettle(i)
  \/ \E i \in Calls : W_TrackToolSettle(i)
  \/ \E i \in Calls : W_TrackErrorSettle(i)
  \/ \E i \in Calls : TimerFire(i)

GateSpec == Init /\ [][GateNext]_vars

\* ------------------------------------------- the long-running server: shutdown
LifecycleNext ==
  \/ M_Start
  \/ M_FlagSettle
  \/ M_ConnectSettle
  \/ \E tool \in ToolNames, arg \in ProductIdInputs \cup DataInputs \cup {""},
        rnd \in BOOLEAN : CallsSent < MaxLiveCalls /\ Dispatch(tool, arg, rnd)
  \/ \E i \in Calls : W_HandlerSettle(i)
  \/ \E i \in Calls : W_TrackToolSettle(i)
  \/ \E i \in Calls : W_TrackErrorSettle(i)
  \/ \E i \in Calls : TimerFire(i)
  \/ Signal
  \/ \E s \in Signals : S_ServerCloseSettle(s)
  \/ \E s \in Signals : S_AnalyticsCloseSettle(s)

LifecycleSpec == Init /\ [][LifecycleNext]_vars

\* the event loop runs every continuation whose awaited promise has settled;
\* signals and tool calls come from outside and need not come
FairLifecycleSpec ==
  /\ LifecycleSpec
  /\ WF_vars(M_Start \/ M_FlagSettle \/ M_ConnectSettle)
  /\ WF_vars(\E i \in Calls : W_HandlerSettle(i) \/ W_TrackToolSettle(i) \/ W_TrackErrorSettle(i))
  /\ WF_vars(\E s \in Signals : S_ServerCloseSettle(s) \/ S_AnalyticsCloseSettle(s))

\* ------------------------------------------------------- with time passing
\* the largest reading the clock reaches
MaxClock == 3

\* a millisecond passes
Tick ==
  /\ Alive
  /\ now < MaxClock
  /\ now' = now + 1
  /\ UNCHANGED << apiKey, vendorFlag, mainPc, registered, flagQueries, flagPromise,
                  flagResolved, startupErr, anonymizeData, mcpInteractionId, flagCalls,
                  serverLog, callVars, exitCode, stopVars >>

ClockNext ==
  \/ M_Start
  \/ M_FlagSettle
  \/ M_ConnectSettle
  \/ \E tool \in ToolNames, arg \in ProductIdInputs \cup DataInputs \cup {""},
        rnd \in BOOLEAN : CallsSent < MaxLiveCalls /\ Dispatch(tool, arg, rnd)
  \/ \E i \in Calls : W_HandlerSettle(i)
  \/ \E i \in Calls : W_TrackToolSettle(i)
  \/ \E i \in Calls : W_TrackErrorSettle(i)
  \/ \E i \in Calls : TimerFire(i)
  \/ Tick

ClockSpec == Init /\ [][ClockNext]_vars

\* ------------------------------------------- the provider's methods alone
\* number of direct trackError calls made on the provider
MaxPolicyCalls == 2

\* args a caller of trackError may supply in the context: absent (<< >>) or
\* one mapping (<< m >>) from argument names to values
PolicyArgInputs ==
  {<< >>} \cup {<< m >> : m \in UNION {[ks -> {"1", "x"}] : ks \in SUBSET {"a", "b"}}}

\* a provider constructed with either setting of anonymizeData, nothing else run
PolicyInit ==
  /\ apiKey = TRUE
  /\ vendorFlag = "undefined"
  /\ mainPc = "init"
  /\ registered = {}
  /\ flagQueries = 0
  /\ flagPromise = "none"
  /\ flagResolved = "none"
  /\ startupErr = ""
  /\ anonymizeData \in BOOLEAN
  /\ mcpInteractionId \in {MakeInteractionId(t, pid) : t \in StartTimes, pid \in Pids}
  /\ flagCalls = << >>
  /\ serverLog = << >>
  /\ now \in StartTimes
  /\ captures = << >>
  /\ exceptions = << >>
  /\ inv = [i \in Calls |-> IdleInv]
  /\ trackToolCalls = << >>
  /\ trackErrorCalls = << >>
  /\ exitCode = "none"
  /\ serverClosed = FALSE
  /\ stop = [s \in Signals |-> IdleStop]

\* provider.trackError(error, { tool_name, duration_ms, args? }) called directly
PolicyTrackError(error, toolName, args) ==
  /\ Len(trackErrorCalls) < MaxPolicyCalls
  /\ LET context == [tool_name |-> toolName, duration_ms |-> 0, error |-> error,
                     args |-> args]
     IN  /\ trackErrorCalls' = Append(trackErrorCalls, context)
         /\ exceptions' = Append(exceptions,
                                 ProviderTrackError(mcpInteractionId, error, context))
  /\ UNCHANGED << mainVars, inv, trackToolCalls, captures, exitCode, stopVars >>

\* results a caller of trackTool may pass: duration_ms and success, and any
\* further attributes (`[key: string]: any`)
PolicyResultInputs ==
  { [duration_ms |-> 7, success |-> TRUE],
    [duration_ms |-> 7, success |-> FALSE, rows |-> "3"],
    [duration_ms |-> 7, success |-> TRUE, tool_name |-> "other"] }

\* provider.trackTool(toolName, result) called directly
PolicyTrackTool(toolName, result) ==
  /\ Len(trackToolCalls) < MaxPolicyCalls
  /\ trackToolCalls' = Append(trackToolCalls, [toolName |-> toolName, result |-> result])
  /\ captures' = Append(captures, ProviderTrackTool(mcpInteractionId, toolName, result))
  /\ UNCHANGED << mainVars, inv, trackErrorCalls, exceptions, exitCode, stopVars >>

PolicyNext ==
  \/ \E error \in {"not found"}, toolName \in {"checkStock"}, args \in PolicyArgInputs :
       PolicyTrackError(error, toolName, args)
  \/ \E toolName \in {"checkStock"}, result \in PolicyResultInputs :
       PolicyTrackTool(toolName, result)

PolicySpec == PolicyInit /\ [][PolicyNext]_vars

\* the event loop runs every task that is ready
FairSpec == Spec /\ WF_vars(Next)

TypeOK ==
  /\ apiKey \in BOOLEAN
  /\ vendorFlag \in VendorFlagOutcomes
  /\ mainPc \in {"init", "await_flag", "connecting", "serving", "exited"}
  /\ registered \subseteq ToolNames
  /\ flagQueries \in 0..1
  /\ flagPromise \in {"none", "pending", "resolved", "rejected"}
  /\ flagResolved \in {"none", "true", "false"}
  /\ \A i \in Calls :
       inv[i].pc \in {"idle", "await_handler", "await_trackTool", "await_trackError", "done"}
  /\ exitCode \in {"none", "0", "1"}
  /\ (mainPc = "exited") <=> (exitCode # "none")
  /\ \A s \in Signals :
       stop[s].pc \in {"idle", "await_server_close", "await_analytics_close", "done", "exit"}


\* ------------------------------------------------------------ properties
\* tracking calls the backend received for invocation i
TrackToolsOf(i) ==
  {k \in 1..Len(trackToolCalls) : trackToolCalls[k].inv = i}
TrackErrorsOf(i) ==
  {k \in 1..Len(trackErrorCalls) : trackErrorCalls[k].inv = i}

HandlerResolved(i) == inv[i].handlerOut.kind = "ok"
HandlerRejected(i) == inv[i].handlerOut.kind = "err"
Settled(i) == inv[i].pc = "done"

\* C1: success path.  With a backend present, when the handler resolved with
\* v and the trackTool call resolved, withAnalytics resolves with exactly v,
\* the backend received exactly one trackTool call for the invocation, with
\* toolName = name and success = true, and no trackError call.
C1_SuccessPath ==
  \A i \in Calls :
    (apiKey /\ Settled(i) /\ HandlerResolved(i) /\ inv[i].ttRes = "resolved") =>
      /\ inv[i].out = RunHandler(inv[i].tool, inv[i].arg, TRUE)
      /\ inv[i].out.kind = "ok"
      /\ Cardinality(TrackToolsOf(i)) = 1
      /\ \A k \in TrackToolsOf(i) :
           trackToolCalls[k].toolName = inv[i].tool /\ trackToolCalls[k].success = TRUE
      /\ TrackErrorsOf(i) = {}

C1_Witness ==
  \E i \in Calls :
    /\ apiKey /\ Settled(i) /\ HandlerResolved(i) /\ inv[i].ttRes = "resolved"
    /\ inv[i].tool = "getInventory"
    /\ inv[i].out = Ok(InventoryText)
    /\ Cardinality(TrackToolsOf(i)) = 1

\* C2: failure path.  With a backend present, when the handler rejected with
\* e, the trackError call is made, exactly once and with e and tool_name =
\* name, while the caller has observed nothing yet; when that call resolved,
\* withAnalytics rejects with the same e, and trackTool was never called.
C2_FailurePath ==
  \A i \in Calls :
    (apiKey /\ HandlerRejected(i)) =>
      /\ inv[i].pc = "await_trackError" =>
           /\ inv[i].out = NoOutcome
           /\ Cardinality(TrackErrorsOf(i)) = 1
      /\ (Settled(i) /\ inv[i].teRes = "resolved") =>
           /\ inv[i].out = Err(inv[i].handlerOut.val)
           /\ Cardinality(TrackErrorsOf(i)) = 1
           /\ \A k \in TrackErrorsOf(i) :
                /\ trackErrorCalls[k].error = inv[i].handlerOut.val
                /\ trackErrorCalls[k].tool_name = inv[i].tool
           /\ TrackToolsOf(i) = {}

C2_Witness ==
  \E i \in Calls :
    /\ apiKey /\ HandlerRejected(i) /\ Settled(i) /\ inv[i].teRes = "resolved"
    /\ inv[i].tool = "checkStock" /\ inv[i].arg = "42"
    /\ inv[i].out = Err("Product 42 not found")
    /\ Cardinality(TrackErrorsOf(i)) = 1

\* C3: with analytics undefined, withAnalytics settles the way the handler
\* did, value for value and error for error, and no tracking call of any
\* kind is made.
C3_AbsentBackend ==
  ~apiKey =>
    /\ trackToolCalls = << >>
    /\ trackErrorCalls = << >>
    /\ \A i \in Calls :
         Settled(i) => inv[i].out = inv[i].handlerOut

C3_Witness ==
  /\ ~apiKey
  /\ \E i, j \in Calls :
       /\ Settled(i) /\ inv[i].out.kind = "ok"
       /\ Settled(j) /\ inv[j].out.kind = "err"

\* C4: with a backend present, every settled invocation made exactly one
\* tracking call: trackTool calls plus trackError calls is one.
C4_ExactlyOneReport ==
  \A i \in Calls :
    (apiKey /\ Settled(i)) =>
      Cardinality(TrackToolsOf(i)) + Cardinality(TrackErrorsOf(i)) = 1

\* C5: a failure of the tracking call is never what the caller observes:
\* handler resolved with v and trackTool rejected, the caller still gets v;
\* handler rejected with e and trackError rejected, the caller still gets e.
C5_TrackingFailureAbsorbed ==
  \A i \in Calls :
    (apiKey /\ Settled(i) /\ (inv[i].ttRes = "rejected" \/ inv[i].teRes = "rejected")) =>
      inv[i].out = inv[i].handlerOut


Serving == mainPc = "serving"

\* the flag query has been issued and has not settled
FlagPending == flagPromise = "pending"

\* C6: capability gate.  After a startup with a backend present that reaches
\* the serving state, risky_operation is registered if and only if the flag
\* query resolved true during that startup.
C6_CapabilityGate ==
  (apiKey /\ Serving) =>
    /\ (GatedTool \in registered) <=> (flagResolved = "true")
    /\ flagResolved \in {"true", "false"}
    /\ flagQueries = 1

C6_Witness ==
  /\ apiKey /\ Serving /\ flagResolved = "true"
  /\ GatedTool \in registered
  /\ \E i \in Calls : inv[i].tool = GatedTool /\ Settled(i)

\* C7: with no backend configured, startup makes no flag query, does not
\* register risky_operation, is never held up or failed by the gate, and
\* serves exactly the ungated tools.
C7_NoBackendStartup ==
  ~apiKey =>
    /\ flagQueries = 0
    /\ GatedTool \notin registered
    /\ startupErr # FlagFailure
    /\ mainPc = "await_flag" => ENABLED M_FlagSettle
    /\ Serving => registered = UngatedTools

C7_Witness ==
  /\ ~apiKey /\ Serving
  /\ registered = UngatedTools
  /\ flagQueries = 0
  /\ \E i \in Calls : Settled(i)

\* C8: a failing flag lookup resolves to false and is never raised.  When the
\* vendor's isFeatureEnabled rejects, startup goes on past the flag query with
\* risky_operation not exposed, and no flag error reaches main().
C8_FlagFailureIsFalse ==
  (apiKey /\ vendorFlag = "reject" /\ mainPc \notin {"init", "await_flag"}) =>
    /\ startupErr # FlagFailure
    /\ mainPc = "exited" => startupErr = ConnectFailure
    /\ GatedTool \notin registered

\* C9: startup never hangs on the flag query.  When the flag lookup never
\* completes, startup still eventually reaches the serving state, with
\* risky_operation not exposed and no error.
C9_StartupNeverHangs ==
  (apiKey /\ vendorFlag = "never" /\ mainPc = "await_flag")
    ~> (Serving /\ GatedTool \notin registered /\ startupErr = "")

\* C10: gating fully resolves before serving.  A tool call is dispatched only
\* when the server is connected and the flag query is no longer pending, and
\* from the moment connect is requested the set of registered tools never
\* changes.
C10_GateBeforeServing ==
  [][ /\ (\E i \in Calls : inv[i].pc = "idle" /\ inv'[i].pc # "idle") =>
           (Serving /\ ~FlagPending)
      /\ mainPc \in {"connecting", "serving"} => registered' = registered
      /\ mainPc' \in {"connecting", "serving"} => ~FlagPending'
    ]_vars

C10_Witness ==
  /\ Serving /\ apiKey /\ vendorFlag = "true"
  /\ registered = ToolNames
  /\ \A i \in Calls : Settled(i)


\* C11: the gate decision is made once per process run.  Once the server is
\* serving, no step issues a flag query or changes the registered tools or the
\* value the gate was decided on, whatever the remote flag becomes and
\* whatever tool calls follow.
C11_GateDecidedOnce ==
  [][ Serving =>
        /\ flagQueries' = flagQueries
        /\ registered' = registered
        /\ flagResolved' = flagResolved
    ]_vars

C11_Witness ==
  /\ Serving /\ apiKey
  /\ flagResolved = "false" /\ vendorFlag = "true"
  /\ GatedTool \notin registered
  /\ flagQueries = 1
  /\ \E i \in Calls : Settled(i)

\* C12: in every startup that reaches the serving state getInventory,
\* checkStock and analyze_data are registered, whatever the flag value and
\* with or without a backend, and a call of any of them runs inside
\* withAnalytics: with a backend its handler's settling is followed by a
\* tracking call.
C12_UngatedAlwaysRegistered ==
  /\ Serving => {"getInventory", "checkStock", "analyze_data"} \subseteq registered
  /\ \A i \in Calls :
       (apiKey /\ inv[i].tool \in {"getInventory", "checkStock", "analyze_data"}
          /\ inv[i].pc \in {"await_trackTool", "await_trackError", "done"}) =>
         TrackToolsOf(i) \cup TrackErrorsOf(i) # {}

C12_Witness ==
  /\ Serving /\ ~apiKey
  /\ registered = {"getInventory", "checkStock", "analyze_data"}
  /\ \E i \in Calls : inv[i].tool = "analyze_data" /\ Settled(i)


\* what the vendor client received for invocation i: the capture events and
\* the captured exceptions (the logs run parallel to the tracking calls)
EventsOf(i) ==
  << {captures[k] : k \in TrackToolsOf(i)},
     {exceptions[k] : k \in TrackErrorsOf(i)} >>

\* C13: no caller-supplied argument value reaches the backend.  Two calls of
\* the same tool that differ only in the argument value, whose handlers both
\* fail and whose tracking calls settle alike, hand identical events to the
\* backend.
C13_NoArgumentReachesBackend ==
  \A i, j \in Calls :
    (/\ apiKey /\ Settled(i) /\ Settled(j)
     /\ inv[i].tool = inv[j].tool
     /\ inv[i].tool \in {"checkStock", "analyze_data"}
     /\ HandlerRejected(i) /\ HandlerRejected(j)
     /\ inv[i].ttRes = inv[j].ttRes /\ inv[i].teRes = inv[j].teRes) =>
      EventsOf(i) = EventsOf(j)

\* every call the vendor client received carries the identity given
AllCarry(id) ==
  /\ \A k \in 1..Len(flagCalls) : flagCalls[k].distinctId = id
  /\ \A k \in 1..Len(captures) : captures[k].distinctId = id
  /\ \A k \in 1..Len(exceptions) : exceptions[k].distinctId = id

\* C17: the identity is fixed per backend instance.  It is assigned at
\* construction and never changes afterwards, and every capture,
\* captureException and isFeatureEnabled call carries it.
C17_IdentityFixed ==
  /\ [](AllCarry(mcpInteractionId))
  /\ [](mainPc # "init" /\ apiKey => mcpInteractionId \in
          {MakeInteractionId(t, pid) : t \in StartTimes, pid \in Pids})
  /\ [][mainPc # "init" => mcpInteractionId' = mcpInteractionId]_vars

C17_Witness ==
  /\ apiKey /\ mcpInteractionId = "mcp_1_100"
  /\ Len(flagCalls) = 1 /\ Len(captures) >= 1 /\ Len(exceptions) >= 1
  /\ AllCarry("mcp_1_100")


\* the args attached to a captured exception; an event without args is taken
\* as one with the empty mapping
AttachedArgs(ev) ==
  IF "args" \in DOMAIN ev.properties THEN ev.properties.args ELSE << >>

Redacted(m) == [k \in DOMAIN m |-> "[REDACTED]"]

\* C14: anonymization policy.  With anonymization on, the args attached to an
\* error report have the key set of the supplied args and every value
\* "[REDACTED]"; with anonymization off the supplied args are attached
\* unchanged; absent args yield an empty mapping.
C14_AnonymizationPolicy ==
  \A k \in 1..Len(exceptions) :
    LET supplied == trackErrorCalls[k].args
        attached == AttachedArgs(exceptions[k])
    IN  /\ (supplied # << >> /\ anonymizeData) => attached = Redacted(supplied[1])
        /\ (supplied # << >> /\ ~anonymizeData) => attached = supplied[1]
        /\ supplied = << >> => attached = << >>


\* C15: close() always resolves.  Whenever the vendor's shutdown() has
\* settled, resolved or rejected, close() has resolved; it never rejects.
C15_CloseAlwaysResolves ==
  \A s \in Signals :
    /\ stop[s].close # "rejected"
    /\ stop[s].shutdown \in {"resolved", "rejected"} => stop[s].close = "resolved"

C15_Witness ==
  \E s \in Signals :
    stop[s].shutdown = "rejected" /\ stop[s].close = "resolved"

\* C16: stopStdioServer never rejects, whether server.close() fails,
\* analytics.close() runs into a failure, or both succeed; a failure of
\* server.close() ends in a normal return.
C16_StopNeverRejects ==
  \A s \in Signals :
    /\ stop[s].res # "rejected"
    /\ stop[s].serverClose = "rejected" => (stop[s].pc = "done" /\ stop[s].res = "resolved")

C16_Witness ==
  \E s, t \in Signals :
    /\ stop[s].serverClose = "rejected" /\ stop[s].res = "resolved"
    /\ stop[t].shutdown = "rejected" /\ stop[t].pc = "exit"


HandlerHasSettled(i) == inv[i].pc \in {"await_trackTool", "await_trackError", "done"}

\* C18: analyze_data is a slow operation.  analyzeData resolves only after
\* its 1000 ms timer has fired: once the handler of an analyze_data call has
\* settled, and so whenever its success report has been made, the timer has
\* fired.
C18_AnalyzeDataAwaitsTimer ==
  \A i \in Calls :
    (inv[i].tool = "analyze_data" /\ (HandlerHasSettled(i) \/ TrackToolsOf(i) # {})) =>
      inv[i].timer = "fired"

\* C19: withAnalytics never swallows a handler failure.  Whenever the handler
\* rejected and withAnalytics has settled, it has rejected, with or without a
\* backend and whether trackError resolved or rejected.
C19_FailureNeverSwallowed ==
  \A i \in Calls :
    (HandlerRejected(i) /\ inv[i].out # NoOutcome) => inv[i].out.kind = "err"

C19_Witness ==
  \E i \in Calls :
    /\ apiKey /\ HandlerRejected(i) /\ Settled(i)
    /\ inv[i].teRes = "rejected"
    /\ inv[i].out = Err(TrackErrorFailure)

\* C20: ordering within one invocation.  With a backend present no tracking
\* call is made before the handler has settled; while a tracking call is
\* awaited the caller has observed nothing; and once the caller has observed
\* the outcome, a tracking call has been made and every tracking call made
\* has settled.
C20_TrackingBetweenHandlerAndReturn ==
  \A i \in Calls :
    apiKey =>
      /\ inv[i].pc \in {"idle", "await_handler"} =>
           (TrackToolsOf(i) = {} /\ TrackErrorsOf(i) = {})
      /\ inv[i].pc \in {"await_trackTool", "await_trackError"} => inv[i].out = NoOutcome
      /\ inv[i].out # NoOutcome =>
           /\ TrackToolsOf(i) \cup TrackErrorsOf(i) # {}
           /\ TrackToolsOf(i) # {} => inv[i].ttRes \in {"resolved", "rejected"}
           /\ TrackErrorsOf(i) # {} => inv[i].teRes \in {"resolved", "rejected"}

C20_Witness ==
  /\ apiKey
  /\ \E i, j \in Calls :
       /\ Settled(i) /\ HandlerResolved(i) /\ inv[i].ttRes = "resolved"
       /\ inv[j].pc = "await_trackError" /\ HandlerRejected(j)
       /\ Cardinality(TrackErrorsOf(j)) = 1 /\ inv[j].out = NoOutcome


\* invocations whose handler has been invoked
Started == {i \in Calls : inv[i].pc # "idle"}

\* no tracking call of invocation i rejected
TrackingResolved(i) == inv[i].ttRes # "rejected" /\ inv[i].teRes # "rejected"

\* C21: concurrent invocations do not interfere.  With one backend whose
\* tracking calls resolve, once the N invocations started have settled, in
\* whatever order their steps interleaved, each made exactly one tracking
\* call, carrying its own tool name and its own outcome, each caller received
\* its own handler's result or error, and N tracking calls were made in all.
C21_NoInterference ==
  (apiKey /\ \A i \in Started : Settled(i) /\ TrackingResolved(i)) =>
    /\ Len(trackToolCalls) + Len(trackErrorCalls) = Cardinality(Started)
    /\ \A i \in Started :
         /\ inv[i].out = inv[i].handlerOut
         /\ inv[i].out \in {RunHandler(inv[i].tool, inv[i].arg, rnd) : rnd \in BOOLEAN}
         /\ IF HandlerResolved(i)
            THEN /\ Cardinality(TrackToolsOf(i)) = 1
                 /\ TrackErrorsOf(i) = {}
                 /\ \A k \in TrackToolsOf(i) :
                      /\ trackToolCalls[k].toolName = inv[i].tool
                      /\ trackToolCalls[k].success = TRUE
            ELSE /\ Cardinality(TrackErrorsOf(i)) = 1
                 /\ TrackToolsOf(i) = {}
                 /\ \A k \in TrackErrorsOf(i) :
                      /\ trackErrorCalls[k].tool_name = inv[i].tool
                      /\ trackErrorCalls[k].error = inv[i].handlerOut.val

\* two invocations of different tools overlapped: the one started second made
\* its tracking call first
C21_Witness ==
  /\ apiKey /\ Started = Calls
  /\ \A i \in Calls : Settled(i) /\ TrackingResolved(i)
  /\ inv[1].tool = "getInventory" /\ inv[2].tool = "analyze_data"
  /\ Len(trackToolCalls) >= 2
  /\ trackToolCalls[1].inv = 2 /\ trackToolCalls[2].inv = 1

\* C25: withAnalytics invokes the handler exactly once per call, on every
\* path: handler success, handler failure, tracking-call failure and absent
\* backend.
C25_HandlerInvokedOnce ==
  \A i \in Calls :
    /\ inv[i].pc = "idle" => inv[i].handlerCalls = 0
    /\ inv[i].pc # "idle" => inv[i].handlerCalls = 1

C25_Witness ==
  \E i, j \in Calls :
    /\ apiKey
    /\ Settled(i) /\ HandlerResolved(i) /\ inv[i].ttRes = "rejected"
    /\ Settled(j) /\ HandlerRejected(j) /\ inv[j].teRes = "rejected"
    /\ inv[i].handlerCalls = 1 /\ inv[j].handlerCalls = 1

\* analytics.close() has been called
CloseCalled == \E s \in Signals : stop[s].close # "none"

C27_SignalLeadsToExit ==
  (\E s \in Signals : stop[s].pc # "idle") ~> (exitCode # "none")

\* C28: whenever stopStdioServer has run to its end with a backend present,
\* analytics.close() was called, whether server.close() succeeded or failed.
C28_CloseCalledOnStop ==
  \A s \in Signals :
    (apiKey /\ stop[s].pc \in {"done", "exit"}) => stop[s].close # "none"

\* C29: server.close() and analytics.close() are each called at most once per
\* process run, for every sequence and interleaving of signal deliveries.
C29_CloseAtMostOnce ==
  /\ Cardinality({s \in Signals : stop[s].serverClose # "none"}) <= 1
  /\ Cardinality({s \in Signals : stop[s].close # "none"}) <= 1


\* C22: the duration_ms reported for an invocation is the clock reading taken
\* when the handler settled minus the reading taken right before the handler
\* was invoked, so it leaves out the time spent in the tracking call, and it
\* is never negative.
C22_DurationIsHandlerTime ==
  \A i \in Calls :
    /\ \A k \in TrackToolsOf(i) :
         /\ trackToolCalls[k].duration_ms = inv[i].settledAt - inv[i].start
         /\ trackToolCalls[k].duration_ms >= 0
    /\ \A k \in TrackErrorsOf(i) :
         /\ trackErrorCalls[k].duration_ms = inv[i].settledAt - inv[i].start
         /\ trackErrorCalls[k].duration_ms >= 0

\* C23: success event shape.  For every call trackTool(name, result) the
\* provider emits exactly one capture, with event "tool_executed", the
\* instance identity as distinctId, and properties holding tool_name = name
\* together with duration_ms, success and every extra attribute of result.
C23_SuccessEventShape ==
  /\ Len(captures) = Len(trackToolCalls)
  /\ \A k \in 1..Len(captures) :
       LET name   == trackToolCalls[k].toolName
           result == trackToolCalls[k].result
           props  == captures[k].properties
       IN  /\ captures[k].event = "tool_executed"
           /\ captures[k].distinctId = mcpInteractionId
           /\ props.tool_name = name
           /\ \A key \in DOMAIN result \ {"tool_name"} :
                key \in DOMAIN props /\ props[key] = result[key]

\* positions of the flag query in what buildStdioServer did
FlagQueryPositions ==
  {k \in 1..Len(serverLog) : serverLog[k].op = "isFeatureEnabled"}

\* C24: at a startup with a backend the flag query for the gated operation is
\* issued exactly once, and before any operation, gated or ungated, is
\* registered on the server.
C24_FlagQueryBeforeRegistration ==
  (apiKey /\ mainPc # "init") =>
    /\ Cardinality(FlagQueryPositions) = 1
    /\ \A k \in 1..Len(serverLog) :
         serverLog[k].op = "tool" => \E j \in FlagQueryPositions : j < k

====
